---------------------------- MODULE Spec2Model ----------------------------
(***************************************************************************)
(* Model of the pressure crate (src/lib.rs): the construction of a        *)
(* pressure monitor from the process environment (init_monitor, new) and  *)
(* the two wait engines (PressureMonitor::wait, tokio::PressureMonitor::  *)
(* wait) running against a pressure source that signals events.           *)
(***************************************************************************)
EXTENDS FiniteSets, Integers, Sequences, TLC

\* ------------------------------------------------------------------ bounds
\* longest MEMORY_PRESSURE_WRITE text the environment holds
MaxB64Len == 4
\* most wait calls made on one monitor
MaxWaits == 2
\* most pressure events the source signals
MaxEvents == 2

\* ---------------------------------------------------------------- constants
DefaultPath == "/proc/pressure/memory"
DevNull == "/dev/null"
CustomPath == "/run/pressure/custom"

\* b"some 20000 2000000\x00"
DEFAULT_PRESSURE ==
    <<115, 111, 109, 101, 32, 50, 48, 48, 48, 48, 32,
      50, 48, 48, 48, 48, 48, 48, 0>>

\* let mut buf = [0; 1024] in the blocking engine
BlockingBuf == 1024
\* let mut buf = [0; 512] in the suspending engine
TokioBuf == 512

\* sizes of the payload one event leaves on a pipe or socket
PayloadSizes == {1, 1025}

\* ------------------------------------------------------------- environment
\* characters of the texts MEMORY_PRESSURE_WRITE may hold: two symbols of
\* the standard base64 alphabet and the padding character, which is not a
\* symbol anywhere but at the end of the last group
B64Chars == {"B", "Q", "="}

B64Texts == UNION {[1..n -> B64Chars] : n \in 0..MaxB64Len}

\* std::env::var outcomes
WatchValues ==
    {[tag |-> "NotPresent", val |-> ""], [tag |-> "NotUnicode", val |-> ""]}
    \cup {[tag |-> "Ok", val |-> p] : p \in {DevNull, DefaultPath, CustomPath}}

WriteValues ==
    {[tag |-> "NotPresent", val |-> <<>>], [tag |-> "NotUnicode", val |-> <<>>]}
    \cup {[tag |-> "Ok", val |-> s] : s \in B64Texts}

\* what std::fs::metadata can report for a path
FileTypes == {"file", "fifo", "socket", "dir", "chardev"}

\* --------------------------------------------------------- base64 decoding
\* value of a symbol of the standard alphabet
B64Val(c) == IF c = "B" THEN 1 ELSE 16

IsSymbol(c) == c \in {"B", "Q"}

\* the three bytes four symbols encode
Quad(a, b, c, d) ==
    <<B64Val(a) * 4 + (B64Val(b) \div 16),
      (B64Val(b) % 16) * 16 + (B64Val(c) \div 4),
      (B64Val(c) % 4) * 64 + B64Val(d)>>

\* BASE64_STANDARD.decode of the last group of four: canonical padding is
\* required and the unused trailing bits must be zero
LastGroup(g) ==
    IF IsSymbol(g[1]) /\ IsSymbol(g[2]) /\ IsSymbol(g[3]) /\ IsSymbol(g[4])
    THEN [ok |-> TRUE, bytes |-> Quad(g[1], g[2], g[3], g[4])]
    ELSE IF IsSymbol(g[1]) /\ IsSymbol(g[2]) /\ IsSymbol(g[3]) /\ g[4] = "="
              /\ B64Val(g[3]) % 4 = 0
    THEN [ok |-> TRUE, bytes |-> SubSeq(Quad(g[1], g[2], g[3], "B"), 1, 2)]
    ELSE IF IsSymbol(g[1]) /\ IsSymbol(g[2]) /\ g[3] = "=" /\ g[4] = "="
              /\ B64Val(g[2]) % 16 = 0
    THEN [ok |-> TRUE, bytes |-> SubSeq(Quad(g[1], g[2], "B", "B"), 1, 1)]
    ELSE [ok |-> FALSE, bytes |-> <<>>]

RECURSIVE DecodeGroups(_)
DecodeGroups(s) ==
    IF Len(s) = 0 THEN [ok |-> TRUE, bytes |-> <<>>]
    ELSE IF Len(s) = 4 THEN LastGroup(s)
    ELSE LET head == LastGroup(SubSeq(s, 1, 4))
             rest == DecodeGroups(SubSeq(s, 5, Len(s)))
         IN  IF head.ok /\ s[4] # "=" /\ rest.ok
             THEN [ok |-> TRUE, bytes |-> head.bytes \o rest.bytes]
             ELSE [ok |-> FALSE, bytes |-> <<>>]

\* base64::prelude::BASE64_STANDARD.decode(&write)
Decode(s) ==
    IF Len(s) % 4 # 0 THEN [ok |-> FALSE, bytes |-> <<>>]
    ELSE DecodeGroups(s)

\* --------------------------------------------------------------- resolution
\* a resolution that takes "/dev/null" for a path like any other
Resolve_DevNullLiteral(watch, wr) ==
    IF watch.tag = "NotPresent"
    THEN [tag |-> "ok", path |-> DefaultPath, write |-> DEFAULT_PRESSURE]
    ELSE IF watch.tag = "Ok"
    THEN IF wr.tag = "Ok"
         THEN IF Decode(wr.val).ok
              THEN [tag |-> "ok", path |-> watch.val,
                    write |-> Decode(wr.val).bytes]
              ELSE [tag |-> "panic", path |-> "", write |-> <<>>]
         ELSE [tag |-> "ok", path |-> watch.val, write |-> <<>>]
    ELSE [tag |-> "VarError", path |-> "", write |-> <<>>]

\* the match of init_monitor on the two environment variables: the path and
\* the bytes to write, an error returned to the caller, or a panic
Resolve(watch, wr) ==
    IF (watch.tag = "Ok" /\ watch.val = DevNull) \/ watch.tag = "NotPresent"
    THEN [tag |-> "ok", path |-> DefaultPath, write |-> DEFAULT_PRESSURE]
    ELSE IF watch.tag = "Ok"
    THEN IF wr.tag = "Ok"
         THEN IF Decode(wr.val).ok
              THEN [tag |-> "ok", path |-> watch.val,
                    write |-> Decode(wr.val).bytes]
              ELSE [tag |-> "panic", path |-> "", write |-> <<>>]
         ELSE [tag |-> "ok", path |-> watch.val, write |-> <<>>]
    ELSE [tag |-> "VarError", path |-> "", write |-> <<>>]

\* a branch that opens whatever is not a socket
Branch_OpenAnything(ft) ==
    IF ft = "socket" THEN "connect" ELSE "open"

\* the branch init_monitor takes on the file type
Branch(ft) ==
    IF ft = "file" \/ ft = "fifo" THEN "open"
    ELSE IF ft = "socket" THEN "connect"
    ELSE "UnexpectedFileType"

\* a classification that tags a pipe as a file
Classify_AlwaysFile(ft) == "File"

\* the MonitorType variant init_monitor returns for an opened file or pipe
Classify(ft) == IF ft = "file" THEN "File" ELSE "Fifo"

\* a dispatch that drains every kind
WaitFlags_AlwaysRead(k) ==
    IF k = "File" THEN [flag |-> "POLLPRI", needs_read |-> TRUE]
    ELSE [flag |-> "POLLIN", needs_read |-> TRUE]

\* (pollflag, needs_read) of PressureMonitor::wait
WaitFlags(k) ==
    IF k = "File" THEN [flag |-> "POLLPRI", needs_read |-> FALSE]
    ELSE [flag |-> "POLLIN", needs_read |-> TRUE]

\* (pollflag, needs_read) of tokio::PressureMonitor::wait
TokioWaitFlags(k) ==
    IF k = "File" THEN [flag |-> "PRIORITY", needs_read |-> FALSE]
    ELSE [flag |-> "READABLE", needs_read |-> TRUE]

\* a match that lets EWOULDBLOCK through as an error
ReadResult_WouldBlockErr(r) ==
    IF r = "Ok" THEN "Ok" ELSE "Nix"

\* the match on the result of nix::unistd::read, in both engines
ReadResult(r) ==
    IF r = "Ok" THEN "Ok"
    ELSE IF r = "EWOULDBLOCK" THEN "Ok"
    ELSE "Nix"

\* what a wait call does when its readiness wait fails: poll(...).unwrap()
\* panics, ready(pollflag).await? returns the io::Error
ReadyFailure(e) == IF e = "blocking" THEN "panic" ELSE "Io"

\* the size of buf in the wait of engine e
BufSize(e) == IF e = "blocking" THEN BlockingBuf ELSE TokioBuf

Min(a, b) == IF a < b THEN a ELSE b

\* -------------------------------------------------------------------- state
VARIABLES
    engine,      \* "blocking" (PressureMonitor) or "tokio" (tokio::PressureMonitor)
    envWatch,    \* std::env::var("MEMORY_PRESSURE_WATCH")
    envWrite,    \* std::env::var("MEMORY_PRESSURE_WRITE")
    pc,          \* position of the caller inside new() / wait()
    path,        \* the resolved path
    write,       \* the resolved bytes to write
    fileType,    \* file type std::fs::metadata reported, "none" before
    kind,        \* MonitorType variant of the monitor, "none" before
    fd,          \* "none", "open" or "closed": the handle the monitor owns
    opened,      \* paths opened or connected so far
    nWrites,     \* write operations issued on the handle
    delivered,   \* bytes the source has received
    nClose,      \* times the handle was closed
    newResult,   \* what new() returned: "none", "Ok", an Error variant, "panic"
    waitResult,  \* what the last wait() returned, likewise
    pollflag,    \* readiness class the current wait call asked for
    lastPoll,    \* "none", "ok" or "err": the readiness wait of the current call
    needs_read,  \* whether the current wait call drains after the readiness wait
    nReads,      \* reads performed by the current wait call
    lastRead,    \* result and length of the last read on the handle
    avail,       \* bytes pending on the pipe or socket
    pri,         \* a priority event is pending on the file
    hup,         \* the peer of the socket has closed
    cached,      \* readiness the reactor has cached for the AsyncFd
    nWaits,      \* wait calls made
    nEvents,     \* events signalled by the source
    nOk,         \* wait calls that returned Ok
    prevResult   \* what the wait call before the current one returned

vars == <<engine, envWatch, envWrite, pc, path, write, fileType, kind, fd,
          opened, nWrites, delivered, nClose, newResult, waitResult, pollflag,
          lastPoll, needs_read, nReads, lastRead, avail, pri, hup, cached, nWaits,
          nEvents, nOk, prevResult>>

envVars == <<engine, envWatch, envWrite>>
initVars == <<path, write, fileType, kind, opened, nWrites, delivered>>
callVars == <<pollflag, lastPoll, needs_read, nReads, lastRead, nWaits>>
srcVars == <<avail, pri, hup, cached, nEvents>>
histVars == <<nOk, prevResult>>

Init ==
    /\ engine \in {"blocking", "tokio"}
    /\ envWatch \in WatchValues
    /\ envWrite \in WriteValues
    /\ pc = "start"
    /\ path = ""
    /\ write = <<>>
    /\ fileType = "none"
    /\ kind = "none"
    /\ fd = "none"
    /\ opened = {}
    /\ nWrites = 0
    /\ delivered = <<>>
    /\ nClose = 0
    /\ newResult = "none"
    /\ waitResult = "none"
    /\ pollflag = "none"
    /\ lastPoll = "none"
    /\ needs_read = FALSE
    /\ nReads = 0
    /\ lastRead = [res |-> "none", n |-> 0]
    /\ avail = 0
    /\ pri = FALSE
    /\ hup = FALSE
    /\ cached = FALSE
    /\ nWaits = 0
    /\ nEvents = 0
    /\ nOk = 0
    /\ prevResult = "none"

\* ------------------------------------------------------------- construction
\* a failure that leaks the descriptor it holds: a raw descriptor in place
\* of an OwnedFd
Fail_Leak(e) ==
    /\ pc' = "failed"
    /\ newResult' = e
    /\ UNCHANGED <<fd, nClose>>

\* new() fails with error e; an OwnedFd or UnixStream already held is dropped
Fail(e) ==
    /\ pc' = "failed"
    /\ newResult' = e
    /\ fd' = IF fd = "open" THEN "closed" ELSE fd
    /\ nClose' = IF fd = "open" THEN nClose + 1 ELSE nClose

\* init_monitor, the match on MEMORY_PRESSURE_WATCH / MEMORY_PRESSURE_WRITE
ResolveEnv ==
    /\ pc = "start"
    /\ LET r == Resolve(envWatch, envWrite) IN
        \/ /\ r.tag = "ok"
           /\ pc' = "resolved"
           /\ path' = r.path
           /\ write' = r.write
           /\ UNCHANGED <<newResult, fd, nClose>>
        \/ /\ r.tag = "panic"
           /\ pc' = "panicked"
           /\ newResult' = "panic"
           /\ UNCHANGED <<path, write, fd, nClose>>
        \/ /\ r.tag = "VarError"
           /\ Fail("VarError")
           /\ UNCHANGED <<path, write>>
    /\ UNCHANGED <<envVars, fileType, kind, opened, nWrites, delivered,
                   waitResult, callVars, srcVars>>
    /\ UNCHANGED histVars

\* std::fs::metadata(&path)?.file_type() and the branch on it
Stat ==
    /\ pc = "resolved"
    /\ \/ /\ Fail("Io")
           /\ UNCHANGED fileType
        \/ \E ft \in FileTypes :
             /\ fileType' = ft
             /\ IF Branch(ft) = "UnexpectedFileType"
                THEN Fail("UnexpectedFileType")
                ELSE /\ pc' = Branch(ft)
                     /\ UNCHANGED <<newResult, fd, nClose>>
    /\ UNCHANGED <<envVars, path, write, kind, opened, nWrites, delivered,
                   waitResult, callVars, srcVars>>
    /\ UNCHANGED histVars

\* nix::fcntl::open(path, O_RDWR | O_CLOEXEC | O_NONBLOCK)?
Open ==
    /\ pc = "open"
    /\ \/ /\ Fail("Nix")
           /\ UNCHANGED opened
        \/ /\ pc' = "write"
           /\ fd' = "open"
           /\ opened' = opened \cup {path}
           /\ UNCHANGED <<newResult, nClose>>
    /\ UNCHANGED <<envVars, path, write, fileType, kind, nWrites, delivered,
                   waitResult, callVars, srcVars>>
    /\ UNCHANGED histVars

\* the byte counts one write(2) of buf may report on this handle: the
\* kernel's pressure file takes the whole buffer, and so does a pipe for a
\* buffer of at most PIPE_BUF bytes; any other regular file may take less
WriteCounts(p, ft, buf) ==
    IF ft = "file" /\ p # DefaultPath /\ Len(buf) > 0
    THEN 1..Len(buf)
    ELSE {Len(buf)}

\* nix::unistd::write(&fd, &write)? and the MonitorType returned; the count
\* write reports is dropped
Write ==
    /\ pc = "write"
    /\ nWrites' = nWrites + 1
    /\ \/ /\ Fail("Nix")
           /\ UNCHANGED <<delivered, kind>>
        \/ \E n \in WriteCounts(path, fileType, write) :
             /\ delivered' = delivered \o SubSeq(write, 1, n)
             /\ kind' = Classify(fileType)
             /\ pc' = "wrap"
             /\ UNCHANGED <<newResult, fd, nClose>>
    /\ UNCHANGED <<envVars, path, write, fileType, opened, waitResult,
                   callVars, srcVars>>
    /\ UNCHANGED histVars

\* UnixStream::connect(path)?
Connect ==
    /\ pc = "connect"
    /\ \/ /\ Fail("Io")
           /\ UNCHANGED opened
        \/ /\ pc' = "nonblocking"
           /\ fd' = "open"
           /\ opened' = opened \cup {path}
           /\ UNCHANGED <<newResult, nClose>>
    /\ UNCHANGED <<envVars, path, write, fileType, kind, nWrites, delivered,
                   waitResult, callVars, srcVars>>
    /\ UNCHANGED histVars

\* stream.set_nonblocking(true)?
SetNonblocking ==
    /\ pc = "nonblocking"
    /\ \/ Fail("Io")
        \/ /\ pc' = "write_all"
           /\ UNCHANGED <<newResult, fd, nClose>>
    /\ UNCHANGED <<envVars, initVars, waitResult, callVars, srcVars>>
    /\ UNCHANGED histVars

\* stream.write_all(&write)? and Ok(MonitorType::Socket(fd)); a failing
\* write_all may have delivered a prefix
WriteAll ==
    /\ pc = "write_all"
    /\ nWrites' = nWrites + 1
    /\ \/ /\ Fail("Io")
           /\ \E n \in 0..Len(write) :
                delivered' = delivered \o SubSeq(write, 1, n)
           /\ UNCHANGED kind
        \/ /\ delivered' = delivered \o write
           /\ kind' = "Socket"
           /\ pc' = "wrap"
           /\ UNCHANGED <<newResult, fd, nClose>>
    /\ UNCHANGED <<envVars, path, write, fileType, opened, waitResult,
                   callVars, srcVars>>
    /\ UNCHANGED histVars

\* PressureMonitor::new: Ok(Self { pressure_file })
New ==
    /\ pc = "wrap"
    /\ engine = "blocking"
    /\ pc' = "idle"
    /\ newResult' = "Ok"
    /\ UNCHANGED <<envVars, initVars, fd, nClose, waitResult, callVars,
                   srcVars>>
    /\ UNCHANGED histVars

\* tokio::PressureMonitor::new: AsyncFd::new(pressure_file)?
TokioNew ==
    /\ pc = "wrap"
    /\ engine = "tokio"
    /\ \/ Fail("Io")
        \/ /\ pc' = "idle"
           /\ newResult' = "Ok"
           /\ UNCHANGED <<fd, nClose>>
    /\ UNCHANGED <<envVars, initVars, waitResult, callVars, srcVars>>
    /\ UNCHANGED histVars

\* ------------------------------------------------------------ blocking wait
Live == pc \in {"idle", "polling", "reading"}

\* a wait that writes the arm-configuration again before it polls
WaitBegin_Rearm ==
    /\ pc = "idle"
    /\ engine = "blocking"
    /\ nWaits < MaxWaits
    /\ nWaits' = nWaits + 1
    /\ pollflag' = WaitFlags(kind).flag
    /\ needs_read' = WaitFlags(kind).needs_read
    /\ lastPoll' = "none"
    /\ nReads' = 0
    /\ waitResult' = "none"
    /\ pc' = "polling"
    /\ nWrites' = nWrites + 1
    /\ delivered' = delivered \o write
    /\ UNCHANGED <<envVars, path, write, fileType, kind, opened, fd, nClose,
                   newResult, lastRead, srcVars>>
    /\ prevResult' = waitResult
    /\ UNCHANGED nOk

\* PressureMonitor::wait up to the call of nix::poll::poll
WaitBegin ==
    /\ pc = "idle"
    /\ engine = "blocking"
    /\ nWaits < MaxWaits
    /\ nWaits' = nWaits + 1
    /\ pollflag' = WaitFlags(kind).flag
    /\ needs_read' = WaitFlags(kind).needs_read
    /\ lastPoll' = "none"
    /\ nReads' = 0
    /\ waitResult' = "none"
    /\ pc' = "polling"
    /\ UNCHANGED <<envVars, initVars, fd, nClose, newResult, lastRead,
                   srcVars>>
    /\ prevResult' = waitResult
    /\ UNCHANGED nOk

\* a poll that does not block: PollTimeout::ZERO in place of NONE
PollReady_ZeroTimeout == TRUE

\* the revents poll(2) has to report for the requested class
PollReady ==
    \/ pollflag = "POLLPRI" /\ pri
    \/ pollflag = "POLLIN" /\ (avail > 0 \/ hup)

\* poll with PollTimeout::NONE returns Ok: the pressure file resets its
\* priority event when it is reported
PollOk ==
    /\ pc = "polling"
    /\ engine = "blocking"
    /\ PollReady
    /\ lastPoll' = "ok"
    /\ pri' = IF pollflag = "POLLPRI" THEN FALSE ELSE pri
    /\ IF needs_read
       THEN pc' = "reading" /\ UNCHANGED waitResult
       ELSE pc' = "idle" /\ waitResult' = "Ok"
    /\ UNCHANGED <<envVars, initVars, fd, nClose, newResult, pollflag,
                   needs_read, nReads, lastRead, nWaits, avail, hup, cached,
                   nEvents>>
    /\ nOk' = IF needs_read THEN nOk ELSE nOk + 1
    /\ UNCHANGED prevResult

\* poll returns Err (EINTR, ENOMEM, ...): .unwrap() panics
PollErr ==
    /\ pc = "polling"
    /\ engine = "blocking"
    /\ lastPoll' = "err"
    /\ pc' = "panicked"
    /\ waitResult' = ReadyFailure(engine)
    /\ UNCHANGED <<envVars, initVars, fd, nClose, newResult, pollflag,
                   needs_read, nReads, lastRead, nWaits, srcVars>>
    /\ UNCHANGED histVars

\* nix::unistd::read(fd, &mut buf) and the match on its result, in both
\* engines: the handle is non-blocking
Read ==
    /\ pc = "reading"
    /\ nReads' = nReads + 1
    /\ pc' = "idle"
    /\ \/ /\ lastRead' = [res |-> "EIO", n |-> 0]
           /\ waitResult' = ReadResult("EIO")
           /\ UNCHANGED avail
        \/ /\ avail > 0
           /\ lastRead' = [res |-> "Ok", n |-> Min(avail, BufSize(engine))]
           /\ waitResult' = ReadResult("Ok")
           /\ avail' = avail - Min(avail, BufSize(engine))
        \/ /\ avail = 0
           /\ hup
           /\ lastRead' = [res |-> "Ok", n |-> 0]
           /\ waitResult' = ReadResult("Ok")
           /\ UNCHANGED avail
        \/ /\ avail = 0
           /\ ~hup
           /\ lastRead' = [res |-> "EWOULDBLOCK", n |-> 0]
           /\ waitResult' = ReadResult("EWOULDBLOCK")
           /\ UNCHANGED avail
    /\ UNCHANGED <<envVars, initVars, fd, nClose, newResult, pollflag,
                   lastPoll, needs_read, nWaits, pri, hup, cached, nEvents>>
    /\ nOk' = IF waitResult' = "Ok" THEN nOk + 1 ELSE nOk
    /\ UNCHANGED prevResult

\* ---------------------------------------------------------- suspending wait
\* tokio::PressureMonitor::wait up to the await of ready(pollflag)
TokioWaitBegin ==
    /\ pc = "idle"
    /\ engine = "tokio"
    /\ nWaits < MaxWaits
    /\ nWaits' = nWaits + 1
    /\ pollflag' = TokioWaitFlags(kind).flag
    /\ needs_read' = TokioWaitFlags(kind).needs_read
    /\ lastPoll' = "none"
    /\ nReads' = 0
    /\ waitResult' = "none"
    /\ pc' = "polling"
    /\ UNCHANGED <<envVars, initVars, fd, nClose, newResult, lastRead,
                   srcVars>>
    /\ prevResult' = waitResult
    /\ UNCHANGED nOk

\* a resumption that keeps the cached readiness: no clear_ready()
TokioReady_NoClear ==
    /\ pc = "polling"
    /\ engine = "tokio"
    /\ cached \/ hup
    /\ cached' = cached
    /\ lastPoll' = "ok"
    /\ IF needs_read
       THEN pc' = "reading" /\ UNCHANGED waitResult
       ELSE pc' = "idle" /\ waitResult' = "Ok"
    /\ UNCHANGED <<envVars, initVars, fd, nClose, newResult, pollflag,
                   needs_read, nReads, lastRead, nWaits, avail, pri, hup,
                   nEvents>>
    /\ nOk' = IF needs_read THEN nOk ELSE nOk + 1
    /\ UNCHANGED prevResult

\* ready(pollflag).await resolves with a guard and clear_ready() clears the
\* cached readiness; a closed peer stays ready
TokioReady ==
    /\ pc = "polling"
    /\ engine = "tokio"
    /\ cached \/ hup
    /\ cached' = FALSE
    /\ lastPoll' = "ok"
    /\ IF needs_read
       THEN pc' = "reading" /\ UNCHANGED waitResult
       ELSE pc' = "idle" /\ waitResult' = "Ok"
    /\ UNCHANGED <<envVars, initVars, fd, nClose, newResult, pollflag,
                   needs_read, nReads, lastRead, nWaits, avail, pri, hup,
                   nEvents>>
    /\ nOk' = IF needs_read THEN nOk ELSE nOk + 1
    /\ UNCHANGED prevResult

\* ready(pollflag).await? resolves with an io::Error
TokioReadyErr ==
    /\ pc = "polling"
    /\ engine = "tokio"
    /\ lastPoll' = "err"
    /\ pc' = "idle"
    /\ waitResult' = ReadyFailure(engine)
    /\ UNCHANGED <<envVars, initVars, fd, nClose, newResult, pollflag,
                   needs_read, nReads, lastRead, nWaits, srcVars>>
    /\ UNCHANGED histVars

\* a cancellation that throws away the readiness the reactor has cached
TokioCancel_ClearsReady ==
    /\ pc = "polling"
    /\ engine = "tokio"
    /\ pc' = "idle"
    /\ waitResult' = "cancelled"
    /\ cached' = FALSE
    /\ UNCHANGED <<envVars, initVars, fd, nClose, newResult, pollflag,
                   lastPoll, needs_read, nReads, lastRead, nWaits, avail, pri,
                   hup, nEvents, histVars>>

\* the future of wait is dropped while suspended in ready(pollflag).await
TokioCancel ==
    /\ pc = "polling"
    /\ engine = "tokio"
    /\ pc' = "idle"
    /\ waitResult' = "cancelled"
    /\ UNCHANGED <<envVars, initVars, fd, nClose, newResult, pollflag,
                   lastPoll, needs_read, nReads, lastRead, nWaits, srcVars>>
    /\ UNCHANGED histVars

\* ------------------------------------------------------------------- source
\* the source signals one pressure event: a priority event on the pressure
\* file, a payload on the pipe or socket; the reactor caches the readiness
SourceEvent ==
    /\ Live
    /\ nEvents < MaxEvents
    /\ nEvents' = nEvents + 1
    /\ cached' = (engine = "tokio")
    /\ IF kind = "File"
       THEN /\ pri' = (engine = "blocking")
            /\ UNCHANGED avail
       ELSE /\ \E sz \in PayloadSizes : avail' = avail + sz
            /\ UNCHANGED pri
    /\ UNCHANGED <<envVars, initVars, pc, fd, nClose, newResult, waitResult,
                   callVars, hup>>
    /\ UNCHANGED histVars

\* the peer of the socket closes its end
PeerClose ==
    /\ Live
    /\ kind = "Socket"
    /\ ~hup
    /\ hup' = TRUE
    /\ UNCHANGED <<envVars, initVars, pc, fd, nClose, newResult, waitResult,
                   callVars, avail, pri, cached, nEvents>>
    /\ UNCHANGED histVars

\* another process holding the pipe open reads what is pending on it
OtherReader ==
    /\ Live
    /\ kind = "Fifo"
    /\ avail > 0
    /\ avail' = 0
    /\ UNCHANGED <<envVars, initVars, pc, fd, nClose, newResult, waitResult,
                   callVars, pri, hup, cached, nEvents>>
    /\ UNCHANGED histVars

\* a monitor holding a raw descriptor, which dropping it does not close
Drop_NoClose ==
    /\ pc = "idle"
    /\ pc' = "dropped"
    /\ UNCHANGED <<envVars, initVars, fd, nClose, newResult, waitResult,
                   callVars, srcVars, histVars>>

\* the monitor is dropped: its OwnedFd closes the handle
Drop ==
    /\ pc = "idle"
    /\ pc' = "dropped"
    /\ fd' = "closed"
    /\ nClose' = nClose + 1
    /\ UNCHANGED <<envVars, initVars, newResult, waitResult, callVars,
                   srcVars>>
    /\ UNCHANGED histVars

Next ==
    \/ ResolveEnv
    \/ Stat
    \/ Open
    \/ Write
    \/ Connect
    \/ SetNonblocking
    \/ WriteAll
    \/ New
    \/ TokioNew
    \/ WaitBegin
    \/ PollOk
    \/ PollErr
    \/ Read
    \/ TokioWaitBegin
    \/ TokioReady
    \/ TokioReadyErr
    \/ TokioCancel
    \/ SourceEvent
    \/ PeerClose
    \/ OtherReader
    \/ Drop

Spec == Init /\ [][Next]_vars

\* poll(2) returns once the handle is ready and the thread goes on to the
\* read that follows it
FairSpec == Spec /\ WF_vars(PollOk) /\ WF_vars(Read)

\* ------------------------------------------------------------------- claims
\* MEMORY_PRESSURE_WATCH names a path of its own (anything but "/dev/null")
CustomCase == envWatch.tag = "Ok" /\ envWatch.val # DevNull

\* MEMORY_PRESSURE_WATCH is unset or "/dev/null"
DefaultCase ==
    envWatch.tag = "NotPresent" \/ (envWatch.tag = "Ok" /\ envWatch.val = DevNull)

ErrorVariants == {"Nix", "Io", "VarError", "UnexpectedFileType"}

IsPrefix(a, b) == Len(a) <= Len(b) /\ a = SubSeq(b, 1, Len(a))

\* C1: with a custom MEMORY_PRESSURE_WATCH and a MEMORY_PRESSURE_WRITE that
\* is not valid base64, construction returns an error to the caller: it does
\* not panic, does not go on with another arm value, and nothing is opened
\* or written.
C1_MalformedBase64IsError ==
    (/\ CustomCase
     /\ envWrite.tag = "Ok"
     /\ ~Decode(envWrite.val).ok
     /\ pc # "start")
    => (/\ pc = "failed"
        /\ newResult \in ErrorVariants
        /\ opened = {}
        /\ nWrites = 0)

\* C2: in the blocking wait a failure of poll is returned to the caller as an
\* Err; it never panics and is never swallowed.
C2_PollFailureIsErr ==
    (engine = "blocking" /\ lastPoll = "err")
    => (pc # "panicked" /\ waitResult \in ErrorVariants)

\* C3: an environment variable that is present but not valid UTF-8
\* (MEMORY_PRESSURE_WATCH, or MEMORY_PRESSURE_WRITE under a custom path)
\* makes construction fail with a configuration error; the source is never
\* opened and armed with the default path or with an empty write.
C3_NonUtf8IsConfigError ==
    (/\ \/ envWatch.tag = "NotUnicode"
        \/ CustomCase /\ envWrite.tag = "NotUnicode"
     /\ pc # "start")
    => (/\ pc = "failed"
        /\ newResult = "VarError"
        /\ opened = {}
        /\ nWrites = 0)

\* C4: whatever MEMORY_PRESSURE_WRITE holds, when MEMORY_PRESSURE_WATCH is
\* unset or "/dev/null" the resolved path is "/proc/pressure/memory", the
\* bytes written to the source are the 19-byte literal, and "/dev/null" is
\* never opened.
C4_DefaultIgnoresWrite ==
    DefaultCase =>
        /\ (pc # "start" =>
              (/\ path = "/proc/pressure/memory"
               /\ Len(write) = 19
               /\ write = DEFAULT_PRESSURE))
        /\ newResult \notin {"panic", "VarError"}
        /\ opened \subseteq {"/proc/pressure/memory"}
        /\ IsPrefix(delivered, DEFAULT_PRESSURE)
        /\ (kind # "none" => delivered = DEFAULT_PRESSURE)

C4_Witness ==
    /\ DefaultCase
    /\ envWrite.tag = "Ok"
    /\ ~Decode(envWrite.val).ok
    /\ newResult = "Ok"
    /\ opened = {DefaultPath}
    /\ delivered = DEFAULT_PRESSURE

\* C5: under a custom MEMORY_PRESSURE_WATCH, a valid base64
\* MEMORY_PRESSURE_WRITE is delivered to the opened source decoded, complete
\* and in order, in one write, and an absent one delivers nothing, for a
\* regular file, a named pipe and a socket alike.
C5_DecodedBytesDelivered ==
    (CustomCase /\ kind # "none") =>
        /\ nWrites = 1
        /\ ((envWrite.tag = "Ok" /\ Decode(envWrite.val).ok)
              => delivered = Decode(envWrite.val).bytes)
        /\ (envWrite.tag = "NotPresent" => delivered = <<>>)

\* C6: the arm-configuration is written exactly once, during construction
\* and before the first readiness wait, and no wait call writes to the
\* handle.
C6_ArmedOnceBeforeWait ==
    /\ [](/\ nWrites <= 1
          /\ (nWrites = 0 => (nWaits = 0 /\ lastPoll = "none" /\ ~Live))
          /\ (newResult = "Ok" => nWrites = 1))
    /\ [][Live => (nWrites' = nWrites /\ delivered' = delivered)]_vars

C6_Witness ==
    /\ newResult = "Ok"
    /\ nWrites = 1
    /\ nWaits = 2
    /\ waitResult = "Ok"

\* C7: a resolved path that is neither a regular file, a named pipe nor a
\* socket makes construction fail with UnexpectedFileType without the source
\* being opened, connected or written to.
C7_UnexpectedFileType ==
    fileType \notin {"none", "file", "fifo", "socket"} =>
        /\ pc = "failed"
        /\ newResult = "UnexpectedFileType"
        /\ opened = {}
        /\ fd = "none"
        /\ nWrites = 0
        /\ delivered = <<>>

C7_Witness ==
    /\ fileType = "dir"
    /\ newResult = "UnexpectedFileType"

\* C8: a constructed monitor carries the kind of the file type seen at
\* initialization (file -> File, fifo -> Fifo, socket -> Socket), and no
\* wait call, whatever its outcome, changes it.
C8_KindFixed ==
    /\ [](kind # "none" =>
            \/ fileType = "file" /\ kind = "File"
            \/ fileType = "fifo" /\ kind = "Fifo"
            \/ fileType = "socket" /\ kind = "Socket")
    /\ [](newResult = "Ok" => kind # "none")
    /\ [][kind # "none" => kind' = kind]_vars

C8_Witness ==
    /\ fileType = "fifo"
    /\ kind = "Fifo"
    /\ nWaits = 2
    /\ waitResult = "Nix"

\* C9: a wait on a File monitor, in either engine, asks for the priority
\* readiness only, returns Ok only once that readiness wait has completed,
\* and never reads the handle.
C9_FileWaitsPriorityNoRead ==
    kind = "File" =>
        /\ pollflag \in {"none", IF engine = "blocking" THEN "POLLPRI"
                                                       ELSE "PRIORITY"}
        /\ pc # "reading"
        /\ nReads = 0
        /\ lastRead.res = "none"
        /\ (waitResult = "Ok" => lastPoll = "ok")

C9_Witness ==
    /\ kind = "File"
    /\ nWaits = 2
    /\ waitResult = "Ok"
    /\ pc = "idle"

\* C10: a wait on a Fifo or Socket monitor, in either engine, reads once per
\* call that reaches readiness, into a buffer of 1024 (blocking) or 512
\* (suspending) bytes, and only after the readability wait has completed;
\* EWOULDBLOCK and a read of any length give Ok, another read error gives
\* Err.
C10_OneBoundedReadAfterReady ==
    kind \in {"Fifo", "Socket"} =>
        /\ pollflag \in {"none", IF engine = "blocking" THEN "POLLIN"
                                                       ELSE "READABLE"}
        /\ nReads <= 1
        /\ ((pc = "reading" \/ nReads = 1) => lastPoll = "ok")
        /\ (pc = "reading" => nReads = 0)
        /\ ((lastPoll = "ok" /\ pc = "idle") => nReads = 1)
        /\ lastRead.n <= (IF engine = "blocking" THEN 1024 ELSE 512)
        /\ (nReads = 1 =>
              (/\ (lastRead.res \in {"Ok", "EWOULDBLOCK"}
                     => waitResult = "Ok")
               /\ (lastRead.res \notin {"Ok", "EWOULDBLOCK"}
                     => waitResult \in ErrorVariants)))

C10_Witness ==
    /\ kind = "Fifo"
    /\ engine = "blocking"
    /\ nReads = 1
    /\ lastRead.res = "EWOULDBLOCK"
    /\ waitResult = "Ok"

\* C11: on a Fifo or Socket monitor whose peer stays open, a wait that
\* returns Ok has drained what the notification left on the handle, so that
\* over any run of wait calls the Ok returns never outnumber the
\* notifications the source delivered, whatever the size of their payloads.
C11_OkWithinNotifications ==
    (kind \in {"Fifo", "Socket"} /\ ~hup) => nOk <= nEvents

\* C12: cancelling a suspending wait while it is suspended on readiness reads
\* nothing, consumes nothing and neither closes nor re-classifies the handle;
\* the next wait on the monitor again completes only on readiness and, when
\* it returns Ok, has drained once on a Fifo or Socket and not at all on a
\* File.
C12_CancelWithoutSideEffects ==
    /\ [][(engine = "tokio" /\ pc = "polling" /\ waitResult' = "cancelled")
           => (/\ pc' = "idle"
               /\ nReads = 0 /\ nReads' = 0
               /\ lastRead' = lastRead
               /\ avail' = avail
               /\ cached' = cached
               /\ fd = "open" /\ fd' = "open"
               /\ nClose' = nClose
               /\ kind' = kind)]_vars
    /\ [][(prevResult = "cancelled" /\ pc = "polling" /\ lastPoll' = "ok")
           => (cached \/ hup)]_vars
    /\ []((prevResult = "cancelled" /\ waitResult = "Ok")
           => (/\ lastPoll = "ok"
               /\ (Live => fd = "open")
               /\ (kind \in {"Fifo", "Socket"} => nReads = 1)
               /\ (kind = "File" => nReads = 0)))

C12_Witness ==
    /\ engine = "tokio"
    /\ kind = "Socket"
    /\ prevResult = "cancelled"
    /\ waitResult = "Ok"
    /\ nReads = 1
    /\ lastRead.res = "Ok"
    /\ lastRead.n > 0

\* the readiness of the monitor's kind: a priority event on a File, pending
\* bytes or a closed peer on a Fifo or Socket
KindReady ==
    \/ kind = "File" /\ pri
    \/ kind \in {"Fifo", "Socket"} /\ (avail > 0 \/ hup)

\* a blocking wait is parked in poll and the handle is ready for its kind
PollPending == engine = "blocking" /\ pc = "polling" /\ KindReady

\* the drain read of the current call failed with an error other than
\* EWOULDBLOCK
DrainFailed == nReads = 1 /\ lastRead.res \notin {"none", "Ok", "EWOULDBLOCK"}

SameClass(b, t) ==
    \/ b = "POLLPRI" /\ t = "PRIORITY"
    \/ b = "POLLIN" /\ t = "READABLE"

\* C14: at every point of a wait call the two engines, put on the same handle
\* in the same state, do the same: they ask for the same readiness class,
\* read or do not read alike, take the same bytes off the handle, and return
\* the same result when the readiness wait fails.
C14_EnginesAgree ==
    /\ (kind # "none" =>
          (/\ SameClass(WaitFlags(kind).flag, TokioWaitFlags(kind).flag)
           /\ WaitFlags(kind).needs_read = TokioWaitFlags(kind).needs_read))
    /\ (pc = "reading" =>
          avail - Min(avail, BufSize("blocking"))
              = avail - Min(avail, BufSize("tokio")))
    /\ (lastPoll = "err" => ReadyFailure("blocking") = ReadyFailure("tokio"))

\* C15: from its construction to its destruction a monitor owns one open
\* handle: no wait call, whether it returns Ok or Err or is cancelled, closes
\* or replaces it, and dropping the monitor closes it exactly once.
C15_OneHandleClosedOnce ==
    /\ []((newResult = "Ok" /\ pc \in {"idle", "polling", "reading"})
           => (fd = "open" /\ nClose = 0 /\ Cardinality(opened) = 1))
    /\ [](pc = "dropped" => (fd = "closed" /\ nClose = 1))
    /\ [][(newResult = "Ok" /\ pc' # "dropped")
           => (fd' = fd /\ nClose' = nClose /\ opened' = opened)]_vars

C15_Witness ==
    /\ pc = "dropped"
    /\ nClose = 1
    /\ prevResult = "cancelled"
    /\ waitResult = "Nix"

C17_IoFailureEndsConstruction ==
    /\ [](pc = "failed" =>
            (/\ newResult \in ErrorVariants
             /\ (fileType \in {"file", "fifo", "socket"}
                   => newResult \in {"Io", "Nix"})
             /\ ((fileType = "none" /\ newResult # "VarError")
                   => (newResult = "Io" /\ opened = {}))
             /\ fd # "open"
             /\ (fd = "none" <=> opened = {})
             /\ nClose = (IF fd = "closed" THEN 1 ELSE 0)
             /\ (opened = {} => (nWrites = 0 /\ delivered = <<>>))
             /\ nWrites <= 1
             /\ Cardinality(opened) <= 1
             /\ nWaits = 0))
    /\ [](newResult \in {"Io", "Nix"} => pc = "failed")
    /\ [][pc # "failed"]_vars

C17_Witness ==
    /\ pc = "failed"
    /\ newResult = "Nix"
    /\ fileType = "fifo"
    /\ nWrites = 1
    /\ fd = "closed"
    /\ nClose = 1

=============================================================================
